---- MODULE Spec2Model ----
(***************************************************************************)
(* A model of json2db's storage engine, class FileServer: documents and   *)
(* directories addressed by a path relative to the store root `dirpath`,  *)
(* kept directly on a POSIX filesystem through node's fs module.          *)
(*                                                                         *)
(* A filesystem is a function from absolute paths to nodes.  A path is a  *)
(* sequence of names; a text (a file's content, a JS string) is a         *)
(* sequence of one-character strings, so that JSON.stringify and          *)
(* JSON.parse are computed character by character.  Every `await` of the  *)
(* source is a step boundary: a step performs the pending filesystem      *)
(* request and runs the continuation up to the next request.              *)
(***************************************************************************)
EXTENDS Integers, Sequences, FiniteSets, TLC

VARIABLES fs, calls, started, sync

vars == <<fs, calls, started, sync>>

(***************************************************************************)
(* Bounds of the model.                                                    *)
(***************************************************************************)
\* calls a client issues in one behaviour
MaxCalls == 2
\* frames of provision's recursion (it is unbounded when the store root's
\* own parent is missing)
MaxDepth == 4

(***************************************************************************)
(* JS values: undefined, numbers, strings, plain objects (a sequence of   *)
(* <<key, value>> members in insertion order) and Error objects, of which *)
(* only the code is kept.                                                  *)
(***************************************************************************)
Undefined == [t |-> "undefined", n |-> 0, s |-> <<>>, o |-> <<>>]

Num(k) == [t |-> "number", n |-> k, s |-> <<>>, o |-> <<>>]

Str(cs) == [t |-> "string", n |-> 0, s |-> cs, o |-> <<>>]

Obj(ms) == [t |-> "object", n |-> 0, s |-> <<>>, o |-> ms]

\* the Error a failed fs request throws: er.code
Err(code) == [t |-> "error", n |-> 0, s |-> <<code>>, o |-> <<>>]

\* the literal 1 that writep, rmrdir and mkdirp return
One == Num(1)

DigitChars == <<"0", "1", "2", "3", "4", "5", "6", "7", "8", "9">>

IsDigit(c) == \E d \in 1..10 : DigitChars[d] = c

DigitVal(c) == (CHOOSE d \in 1..10 : DigitChars[d] = c) - 1

IsWs(c) == c \in {" ", "\n"}

Min(S) == CHOOSE x \in S : \A y \in S : x <= y

(***************************************************************************)
(* JSON.stringify(data, undefined, 2)                                      *)
(***************************************************************************)
RECURSIVE NumText(_)
NumText(k) ==
  IF k < 10 THEN <<DigitChars[k + 1]>>
  ELSE NumText(k \div 10) \o <<DigitChars[(k % 10) + 1]>>

\* Escape leaving every character as it is
Escape_Raw(cs) == cs

RECURSIVE Escape(_)
Escape(cs) ==
  IF cs = <<>> THEN <<>>
  ELSE LET c == Head(cs)
           e == IF c = "\"" THEN <<"\\", "\"">>
                ELSE IF c = "\\" THEN <<"\\", "\\">>
                ELSE IF c = "\n" THEN <<"\\", "n">>
                ELSE <<c>>
       IN  e \o Escape(Tail(cs))

Quote(cs) == <<"\"">> \o Escape(cs) \o <<"\"">>

RECURSIVE Spaces(_)
Spaces(k) == IF k = 0 THEN <<>> ELSE <<" ">> \o Spaces(k - 1)

RECURSIVE Stringify(_, _)
RECURSIVE MembersText(_, _)
\* the members of an object, one per line, at indentation ind
MembersText(ms, ind) ==
  IF ms = <<>> THEN <<>>
  ELSE Spaces(ind) \o Quote(Head(ms)[1]) \o <<":", " ">>
         \o Stringify(Head(ms)[2], ind)
         \o (IF Len(ms) > 1 THEN <<",", "\n">> ELSE <<>>)
         \o MembersText(Tail(ms), ind)

\* the text of value v whose own line is indented by ind
Stringify(v, ind) ==
  IF v.t = "number" THEN NumText(v.n)
  ELSE IF v.t = "string" THEN Quote(v.s)
  ELSE IF v.o = <<>> THEN <<"{", "}">>
  ELSE <<"{", "\n">> \o MembersText(v.o, ind + 2)
         \o <<"\n">> \o Spaces(ind) \o <<"}">>

JSONStringify(v) == Stringify(v, 0)

(***************************************************************************)
(* JSON.parse(text): a recursive descent over numbers (unsigned           *)
(* integers), strings and objects, the grammar the alphabet of the model  *)
(* can spell.  A result is [ok, v, nx]: nx is the index after the value.  *)
(***************************************************************************)
ParseFail == [ok |-> FALSE, v |-> Undefined, nx |-> 0]

\* the first index from i on that holds no whitespace (Len(t) + 1 at the end)
SkipWs(t, i) == Min({j \in i..(Len(t) + 1) : j > Len(t) \/ ~IsWs(t[j])})

RECURSIVE DigitsVal(_, _, _)
DigitsVal(t, i, j) ==
  IF j < i THEN 0 ELSE 10 * DigitsVal(t, i, j - 1) + DigitVal(t[j])

ParseNumber(t, i) ==
  LET e == Min({j \in i..(Len(t) + 1) : j > Len(t) \/ ~IsDigit(t[j])})
  IN  IF e = i \/ (t[i] = "0" /\ e > i + 1) THEN ParseFail
      ELSE [ok |-> TRUE, v |-> Num(DigitsVal(t, i, e - 1)), nx |-> e]

\* the characters of a string literal whose opening quote is before i
RECURSIVE ParseChars(_, _, _)
ParseChars(t, i, acc) ==
  IF i > Len(t) \/ t[i] = "\n" THEN ParseFail
  ELSE IF t[i] = "\"" THEN [ok |-> TRUE, v |-> Str(acc), nx |-> i + 1]
  ELSE IF t[i] = "\\" THEN
    IF i + 1 > Len(t) THEN ParseFail
    ELSE IF t[i + 1] \in {"\"", "\\"} THEN ParseChars(t, i + 2, Append(acc, t[i + 1]))
    ELSE IF t[i + 1] = "n" THEN ParseChars(t, i + 2, Append(acc, "\n"))
    ELSE ParseFail
  ELSE ParseChars(t, i + 1, Append(acc, t[i]))

\* JS objects hold one value per key: a repeated key keeps its first place
\* and takes the last value
SetMember(ms, k, v) ==
  IF \E j \in 1..Len(ms) : ms[j][1] = k
  THEN [j \in 1..Len(ms) |-> IF ms[j][1] = k THEN <<k, v>> ELSE ms[j]]
  ELSE Append(ms, <<k, v>>)

RECURSIVE ParseValue(_, _)
RECURSIVE ParseMembers(_, _, _)
\* the members of an object from index i (after "{" or ","), acc so far
ParseMembers(t, i, acc) ==
  LET k == SkipWs(t, i)
  IN  IF k > Len(t) \/ t[k] # "\"" THEN ParseFail
      ELSE LET key == ParseChars(t, k + 1, <<>>)
           IN  IF ~key.ok THEN ParseFail
               ELSE LET c == SkipWs(t, key.nx)
                    IN  IF c > Len(t) \/ t[c] # ":" THEN ParseFail
                        ELSE LET val == ParseValue(t, SkipWs(t, c + 1))
                             IN  IF ~val.ok THEN ParseFail
                                 ELSE LET e == SkipWs(t, val.nx)
                                          ms == SetMember(acc, key.v.s, val.v)
                                      IN  IF e > Len(t) THEN ParseFail
                                          ELSE IF t[e] = "}" THEN [ok |-> TRUE, v |-> Obj(ms), nx |-> e + 1]
                                          ELSE IF t[e] = "," THEN ParseMembers(t, e + 1, ms)
                                          ELSE ParseFail

ParseValue(t, i) ==
  IF i > Len(t) THEN ParseFail
  ELSE IF IsDigit(t[i]) THEN ParseNumber(t, i)
  ELSE IF t[i] = "\"" THEN ParseChars(t, i + 1, <<>>)
  ELSE IF t[i] = "{" THEN
    LET k == SkipWs(t, i + 1)
    IN  IF k <= Len(t) /\ t[k] = "}" THEN [ok |-> TRUE, v |-> Obj(<<>>), nx |-> k + 1]
        ELSE ParseMembers(t, i + 1, <<>>)
  ELSE ParseFail

\* [ok |-> FALSE] stands for the SyntaxError JSON.parse throws
JSONParse(t) ==
  LET r == ParseValue(t, SkipWs(t, 1))
  IN  IF r.ok /\ SkipWs(t, r.nx) = Len(t) + 1 THEN r ELSE ParseFail

(***************************************************************************)
(* Paths.  The store is rooted at dirpath; a caller's path is relative to *)
(* it.  "." is the empty sequence.                                         *)
(***************************************************************************)
\* this.dirpath
dirpath == <<"srv", "data">>

\* the relative paths of the model, closed under dirname
RelPaths ==
  { <<>>, <<"a">>, <<"a", "b">>, <<"a", "b", "c">>,
    <<"a", "b", "doc.json">>, <<"a", "n.txt">> }

\* path.join(this.dirpath, p)
join(d, p) == d \o p

\* path.dirname of a relative path: dirname("a") and dirname(".") are "."
dirname(p) == IF Len(p) <= 1 THEN <<>> ELSE SubSeq(p, 1, Len(p) - 1)

\* fpath.endsWith('.json'), over the names of the model
endsWithJson(p) == p # <<>> /\ p[Len(p)] \in {"doc.json"}

\* every absolute path of the model but the filesystem's root "/"
AllPaths == {<<"srv">>, dirpath} \cup {join(dirpath, p) : p \in RelPaths}

IsPrefix(p, q) == Len(p) <= Len(q) /\ SubSeq(q, 1, Len(p)) = p

(***************************************************************************)
(* The filesystem: what node's fs requests do on a POSIX system.  A node  *)
(* is absent, a directory, a regular file with its content, or a special  *)
(* file (a socket: stat answers, it is neither file nor directory, and    *)
(* open fails with ENXIO).  A directory may be read-only: making or       *)
(* removing an entry in it fails with EACCES.  A request answers          *)
(* [err, ...] with err "OK" or the error's code.                           *)
(***************************************************************************)
Absent == [kind |-> "absent", content |-> <<>>]

Dir == [kind |-> "dir", content |-> <<>>]

File(text) == [kind |-> "file", content |-> text]

Special == [kind |-> "special", content |-> <<>>]

\* a directory whose mode grants no write permission (r-x): the content
\* field of a directory holds its mode where it is not writable
ReadOnlyDir == [kind |-> "dir", content |-> <<"r", "-", "x">>]

Node(f, p) == IF p = <<>> THEN Dir ELSE f[p]

\* entries may be made and removed in the directory that holds p
Writable(f, p) == Node(f, SubSeq(p, 1, Len(p) - 1)) # ReadOnlyDir

\* an existing node's parent is a directory
WellFormed(f) ==
  \A p \in AllPaths :
    f[p].kind # "absent" => Node(f, SubSeq(p, 1, Len(p) - 1)).kind = "dir"

\* path resolution up to the last component: the first ancestor that is no
\* directory decides
WalkErr(f, p) ==
  LET bad == {i \in 0..(Len(p) - 1) : Node(f, SubSeq(p, 1, i)).kind # "dir"}
  IN  IF bad = {} THEN "OK"
      ELSE IF Node(f, SubSeq(p, 1, Min(bad))).kind = "absent" THEN "ENOENT"
      ELSE "ENOTDIR"

\* fs.stat
FsStat(f, p) ==
  LET w == WalkErr(f, p)
  IN  IF w # "OK" THEN [err |-> w, kind |-> "absent"]
      ELSE IF Node(f, p).kind = "absent" THEN [err |-> "ENOENT", kind |-> "absent"]
      ELSE [err |-> "OK", kind |-> Node(f, p).kind]

\* fs.mkdir
FsMkdir(f, p) ==
  LET w == WalkErr(f, p)
  IN  IF w # "OK" THEN [err |-> w, fs |-> f]
      ELSE IF Node(f, p).kind # "absent" THEN [err |-> "EEXIST", fs |-> f]
      ELSE IF ~Writable(f, p) THEN [err |-> "EACCES", fs |-> f]
      ELSE [err |-> "OK", fs |-> [f EXCEPT ![p] = Dir]]

\* the entries of directory p
Children(f, p) ==
  {q \in AllPaths : Len(q) = Len(p) + 1 /\ IsPrefix(p, q) /\ f[q].kind # "absent"}

\* fs.rmdir
FsRmdir(f, p) ==
  LET w == WalkErr(f, p)
  IN  IF w # "OK" THEN [err |-> w, fs |-> f]
      ELSE IF Node(f, p).kind = "absent" THEN [err |-> "ENOENT", fs |-> f]
      ELSE IF ~Writable(f, p) THEN [err |-> "EACCES", fs |-> f]
      ELSE IF Node(f, p).kind # "dir" THEN [err |-> "ENOTDIR", fs |-> f]
      ELSE IF Children(f, p) # {} THEN [err |-> "ENOTEMPTY", fs |-> f]
      ELSE [err |-> "OK", fs |-> [f EXCEPT ![p] = Absent]]

\* fs.unlink
FsUnlink(f, p) ==
  LET w == WalkErr(f, p)
  IN  IF w # "OK" THEN [err |-> w, fs |-> f]
      ELSE IF Node(f, p).kind = "absent" THEN [err |-> "ENOENT", fs |-> f]
      ELSE IF ~Writable(f, p) THEN [err |-> "EACCES", fs |-> f]
      ELSE IF Node(f, p).kind = "dir" THEN [err |-> "EISDIR", fs |-> f]
      ELSE [err |-> "OK", fs |-> [f EXCEPT ![p] = Absent]]

\* fs.readdir: the names of the entries
FsReaddir(f, p) ==
  LET w == WalkErr(f, p)
  IN  IF w # "OK" THEN [err |-> w, names |-> {}]
      ELSE IF Node(f, p).kind = "absent" THEN [err |-> "ENOENT", names |-> {}]
      ELSE IF Node(f, p).kind # "dir" THEN [err |-> "ENOTDIR", names |-> {}]
      ELSE [err |-> "OK", names |-> {q[Len(q)] : q \in Children(f, p)}]

\* fs.readFile, and String() of the buffer
FsReadFile(f, p) ==
  LET w == WalkErr(f, p)
  IN  IF w # "OK" THEN [err |-> w, text |-> <<>>]
      ELSE IF Node(f, p).kind = "absent" THEN [err |-> "ENOENT", text |-> <<>>]
      ELSE IF Node(f, p).kind = "dir" THEN [err |-> "EISDIR", text |-> <<>>]
      ELSE IF Node(f, p).kind = "special" THEN [err |-> "ENXIO", text |-> <<>>]
      ELSE [err |-> "OK", text |-> Node(f, p).content]

\* fs.writeFileSync of a string: creates the file or replaces its content
FsWriteFile(f, p, text) ==
  LET w == WalkErr(f, p)
  IN  IF w # "OK" THEN [err |-> w, fs |-> f]
      ELSE IF Node(f, p).kind = "dir" THEN [err |-> "EISDIR", fs |-> f]
      ELSE IF Node(f, p).kind = "special" THEN [err |-> "ENXIO", fs |-> f]
      ELSE IF Node(f, p).kind = "absent" /\ ~Writable(f, p) THEN [err |-> "EACCES", fs |-> f]
      ELSE [err |-> "OK", fs |-> [f EXCEPT ![p] = File(text)]]

(***************************************************************************)
(* Calls.  A call of a FileServer method is a record: its method, its     *)
(* arguments, where its async function stands (pc), the frames of         *)
(* mkdirp's recursion (stack), the tasks of rmrdir's recursion (one per   *)
(* path of the tree, tasks), how its promise settled (out), and the       *)
(* notifications it emitted (ev).  wr counts its writeFileSync calls and  *)
(* fs0 is the filesystem it started on.                                    *)
(***************************************************************************)
Pending == [kind |-> "pending", val |-> Undefined]

Resolved(v) == [kind |-> "resolved", val |-> v]

Rejected(code) == [kind |-> "rejected", val |-> Err(code)]

Event(kind, p, v) == [kind |-> kind, path |-> p, val |-> v]

NoTask == [pc |-> "none", val |-> Undefined]

NoTasks == [q \in RelPaths |-> NoTask]

\* what a call's path may be: any path of the model under the store root
CallPaths == RelPaths \ {<<>>}

\* the paths a client writes documents to
DocPaths == {<<"a", "b", "doc.json">>, <<"a", "n.txt">>}

\* structured values written to a document
JsonValues == {Num(42), Str(<<"4", "2">>), Obj(<< << <<"x">>, Num(1) >> >>)}

\* raw texts written to a document
RawTexts == {Str(<<"4", "2">>), Str(<<"{", "}">>), Str(<<"a">>)}

\* the data a caller passes for path p: writeFileSync takes a string, so a
\* path that is not serialized gets a string
DataFor(p) == IF endsWithJson(p) THEN JsonValues ELSE RawTexts

\* the position a method starts at
FirstPc(op) ==
  CASE op = "read" -> "readFile"
    [] op = "write" -> "emit"
    [] op = "writep" -> "mkdir"
    [] op = "del" -> "emitDelete"
    [] op = "rmrdir" -> "tasks"
    [] op = "mkdirp" -> "mkdir"

NewCall(op, p, data, f) ==
  [ op |-> op, path |-> p, data |-> data, pc |-> FirstPc(op),
    stack |-> IF op = "mkdirp" THEN <<p>>
              ELSE IF op = "writep" THEN <<dirname(p)>> ELSE <<>>,
    er |-> "",
    tasks |-> IF op = "rmrdir" THEN [NoTasks EXCEPT ![p] = [pc |-> "stat", val |-> Undefined]]
              ELSE NoTasks,
    out |-> Pending, ev |-> <<>>, wr |-> 0, fs0 |-> f ]

Settled(call) == call.out.kind # "pending"

\* a task of rmrdir that still has a request to make or a child to wait for
ActiveTask(t) == t.pc \in {"stat", "readdir", "wait", "unlink", "rmdir"}

\* nothing of the call is left to run
Quiescent(call) == Settled(call) /\ \A q \in RelPaths : ~ActiveTask(call.tasks[q])

(***************************************************************************)
(* read (part_000 lines 98-107)                                            *)
(***************************************************************************)
\* JSON.parse in a try whose catch keeps the text
Decode(text) == LET r == JSONParse(text) IN IF r.ok THEN r.v ELSE Str(text)

\* Read, decoding only the documents whose path ends in .json
Read_DecodeJsonOnly(c) ==
  /\ sync = 0
  /\ calls[c].pc = "readFile"
  /\ LET call == calls[c]
         r == FsReadFile(fs, join(dirpath, call.path))
         filejson == IF endsWithJson(call.path) THEN Decode(r.text) ELSE Str(r.text)
     IN  calls' = [calls EXCEPT ![c] =
           IF r.err # "OK"
           THEN [call EXCEPT !.pc = "done", !.out = Rejected(r.err)]
           ELSE [call EXCEPT !.pc = "done", !.out = Resolved(filejson),
                             !.ev = Append(@, Event("read", call.path, filejson))]]
  /\ UNCHANGED <<fs, started, sync>>

\* Read notifying with the file's text, not the value it returns
Read_EmitsText(c) ==
  /\ sync = 0
  /\ calls[c].pc = "readFile"
  /\ LET call == calls[c]
         r == FsReadFile(fs, join(dirpath, call.path))
         filejson == Decode(r.text)
     IN  calls' = [calls EXCEPT ![c] =
           IF r.err # "OK"
           THEN [call EXCEPT !.pc = "done", !.out = Rejected(r.err)]
           ELSE [call EXCEPT !.pc = "done", !.out = Resolved(filejson),
                             !.ev = Append(@, Event("read", call.path, Str(r.text)))]]
  /\ UNCHANGED <<fs, started, sync>>

Read(c) ==
  /\ sync = 0
  /\ calls[c].pc = "readFile"
  /\ LET call == calls[c]
         r == FsReadFile(fs, join(dirpath, call.path))
         filejson == Decode(r.text)
     IN  calls' = [calls EXCEPT ![c] =
           IF r.err # "OK"
           THEN [call EXCEPT !.pc = "done", !.out = Rejected(r.err)]
           ELSE [call EXCEPT !.pc = "done", !.out = Resolved(filejson),
                             !.ev = Append(@, Event("read", call.path, filejson))]]
  /\ UNCHANGED <<fs, started, sync>>

(***************************************************************************)
(* write (lines 115-126): synchronous from the emit to the end of         *)
(* writeFileSync; sync keeps every other call out in between.              *)
(***************************************************************************)
\* what writeFileSync is given
Serialize(p, data) == IF endsWithJson(p) THEN JSONStringify(data) ELSE data.s

\* WriteEmit, notifying with the text that is written
WriteEmit_Serialized(c) ==
  /\ sync = 0
  /\ calls[c].pc = "emit"
  /\ calls' = [calls EXCEPT ![c].pc = "writeFileSync",
                            ![c].ev = Append(@, Event("write", calls[c].path,
                                               Str(Serialize(calls[c].path, calls[c].data))))]
  /\ sync' = c
  /\ UNCHANGED <<fs, started>>

WriteEmit(c) ==
  /\ sync = 0
  /\ calls[c].pc = "emit"
  /\ calls' = [calls EXCEPT ![c].pc = "writeFileSync",
                            ![c].ev = Append(@, Event("write", calls[c].path, calls[c].data))]
  /\ sync' = c
  /\ UNCHANGED <<fs, started>>

\* WriteFileSync returning with the last character of the text still to be
\* written
WriteFileSync_Partial(c) ==
  /\ sync = c
  /\ calls[c].pc = "writeFileSync"
  /\ LET call == calls[c]
         text == Serialize(call.path, call.data)
         r == FsWriteFile(fs, join(dirpath, call.path), SubSeq(text, 1, Len(text) - 1))
     IN  /\ fs' = r.fs
         /\ calls' = [calls EXCEPT ![c] =
              [call EXCEPT !.pc = "done", !.wr = @ + 1,
                           !.out = IF r.err = "OK" THEN Resolved(Undefined)
                                   ELSE Rejected(r.err)]]
  /\ sync' = 0
  /\ UNCHANGED started

WriteFileSync(c) ==
  /\ sync = c
  /\ calls[c].pc = "writeFileSync"
  /\ LET call == calls[c]
         r == FsWriteFile(fs, join(dirpath, call.path), Serialize(call.path, call.data))
     IN  /\ fs' = r.fs
         /\ calls' = [calls EXCEPT ![c] =
              [call EXCEPT !.pc = "done", !.wr = @ + 1,
                           !.out = IF r.err = "OK" THEN Resolved(Undefined)
                                   ELSE Rejected(r.err)]]
  /\ sync' = 0
  /\ UNCHANGED started

(***************************************************************************)
(* del (lines 172-175)                                                     *)
(***************************************************************************)
\* DelEmit going on to the unlink without the notification
DelEmit_Silent(c) ==
  /\ sync = 0
  /\ calls[c].pc = "emitDelete"
  /\ calls' = [calls EXCEPT ![c].pc = "unlink"]
  /\ UNCHANGED <<fs, started, sync>>

DelEmit(c) ==
  /\ sync = 0
  /\ calls[c].pc = "emitDelete"
  /\ calls' = [calls EXCEPT ![c].pc = "unlink",
                            ![c].ev = Append(@, Event("delete", calls[c].path, Undefined))]
  /\ UNCHANGED <<fs, started, sync>>

DelUnlink(c) ==
  /\ sync = 0
  /\ calls[c].pc = "unlink"
  /\ LET r == FsUnlink(fs, join(dirpath, calls[c].path))
     IN  /\ fs' = r.fs
         /\ calls' = [calls EXCEPT ![c].pc = "done",
                                   ![c].out = IF r.err = "OK" THEN Resolved(Undefined)
                                              ELSE Rejected(r.err)]
  /\ UNCHANGED <<started, sync>>

(***************************************************************************)
(* mkdirp (lines 218-240).  The frame on top of the stack runs; the ones  *)
(* below wait at `await this.mkdirp(dirname(dpath))`.                      *)
(***************************************************************************)
\* MkdirpReturn without the `return this.mkdirp(dpath)` after the parent's
\* provisioning: the parent's value is the call's
MkdirpReturn_NoRetry(call, v) ==
  IF call.op = "writep" THEN [call EXCEPT !.stack = <<>>, !.pc = "stat", !.er = ""]
  ELSE [call EXCEPT !.stack = <<>>, !.pc = "done", !.er = "", !.out = Resolved(v)]

\* the running frame returns v: the frame below, if any, goes on to its
\* `return this.mkdirp(dpath)`; the bottom frame's value is mkdirp's, which
\* writep (line 135) drops before its stat
MkdirpReturn(call, v) ==
  LET rest == SubSeq(call.stack, 1, Len(call.stack) - 1)
  IN  IF rest # <<>> THEN [call EXCEPT !.stack = rest, !.pc = "mkdir", !.er = ""]
      ELSE IF call.op = "writep" THEN [call EXCEPT !.stack = rest, !.pc = "stat", !.er = ""]
      ELSE [call EXCEPT !.stack = rest, !.pc = "done", !.er = "", !.out = Resolved(v)]

\* MkdirpMkdir without the ENOENT case: a missing parent is an error like
\* the others
MkdirpMkdir_NoRecursion(c) ==
  /\ sync = 0
  /\ calls[c].pc = "mkdir"
  /\ LET call == calls[c]
         dpath == call.stack[Len(call.stack)]
         r == FsMkdir(fs, join(dirpath, dpath))
     IN  /\ fs' = r.fs
         /\ calls' = [calls EXCEPT ![c] =
              IF r.err = "OK" THEN MkdirpReturn(call, One)
              ELSE [call EXCEPT !.pc = "mkstat", !.er = r.err]]
  /\ UNCHANGED <<started, sync>>

\* await this.mkdir(dpath), and the switch on er.code
MkdirpMkdir(c) ==
  /\ sync = 0
  /\ calls[c].pc = "mkdir"
  /\ LET call == calls[c]
         dpath == call.stack[Len(call.stack)]
         r == FsMkdir(fs, join(dirpath, dpath))
     IN  /\ r.err = "ENOENT" => Len(call.stack) < MaxDepth
         /\ fs' = r.fs
         /\ calls' = [calls EXCEPT ![c] =
              IF r.err = "OK" THEN MkdirpReturn(call, One)
              ELSE IF r.err = "ENOENT"
              THEN [call EXCEPT !.stack = Append(@, dirname(dpath))]
              ELSE [call EXCEPT !.pc = "mkstat", !.er = r.err]]
  /\ UNCHANGED <<started, sync>>

\* MkdirpStat returning the creation error whatever stat finds
MkdirpStat_ExistsIsError(c) ==
  /\ sync = 0
  /\ calls[c].pc = "mkstat"
  /\ LET call == calls[c]
         dpath == call.stack[Len(call.stack)]
         r == FsStat(fs, join(dirpath, dpath))
     IN  calls' = [calls EXCEPT ![c] =
           IF r.err # "OK" THEN MkdirpReturn(call, Err(r.err))
           ELSE MkdirpReturn(call, Err(call.er))]
  /\ UNCHANGED <<fs, started, sync>>

\* MkdirpStat taking whatever stat finds at the path for the directory
MkdirpStat_AnyNodeIsSuccess(c) ==
  /\ sync = 0
  /\ calls[c].pc = "mkstat"
  /\ LET call == calls[c]
         dpath == call.stack[Len(call.stack)]
         r == FsStat(fs, join(dirpath, dpath))
     IN  calls' = [calls EXCEPT ![c] =
           IF r.err # "OK" THEN MkdirpReturn(call, Err(r.err))
           ELSE MkdirpReturn(call, One)]
  /\ UNCHANGED <<fs, started, sync>>

\* the default branch: const stt = await this.stat(dpath)
MkdirpStat(c) ==
  /\ sync = 0
  /\ calls[c].pc = "mkstat"
  /\ LET call == calls[c]
         dpath == call.stack[Len(call.stack)]
         r == FsStat(fs, join(dirpath, dpath))
     IN  calls' = [calls EXCEPT ![c] =
           IF r.err # "OK" THEN MkdirpReturn(call, Err(r.err))
           ELSE IF r.kind = "dir" THEN MkdirpReturn(call, One)
           ELSE MkdirpReturn(call, Err(call.er))]
  /\ UNCHANGED <<fs, started, sync>>

(***************************************************************************)
(* writep (lines 134-155), after its mkdirp                                *)
(***************************************************************************)
\* WritepStat taking whatever exists at the path for the document
WritepStat_NonFileExists(c) ==
  /\ sync = 0
  /\ calls[c].pc = "stat"
  /\ LET call == calls[c]
         r == FsStat(fs, join(dirpath, call.path))
     IN  calls' = [calls EXCEPT ![c] =
           IF r.err = "ENOENT" THEN [call EXCEPT !.pc = "emit"]
           ELSE IF r.err # "OK" THEN [call EXCEPT !.pc = "done", !.out = Resolved(Err(r.err))]
           ELSE [call EXCEPT !.pc = "done", !.out = Resolved(One)]]
  /\ UNCHANGED <<fs, started, sync>>

\* WritepStat without the isFile test: an existing document is written over
WritepStat_Overwrites(c) ==
  /\ sync = 0
  /\ calls[c].pc = "stat"
  /\ LET call == calls[c]
         r == FsStat(fs, join(dirpath, call.path))
     IN  calls' = [calls EXCEPT ![c] =
           IF r.err = "ENOENT" THEN [call EXCEPT !.pc = "emit"]
           ELSE IF r.err # "OK" THEN [call EXCEPT !.pc = "done", !.out = Resolved(Err(r.err))]
           ELSE [call EXCEPT !.pc = "emit"]]
  /\ UNCHANGED <<fs, started, sync>>

\* WritepStat taking every failure of the stat for "not there"
WritepStat_AnyErrorIsAbsent(c) ==
  /\ sync = 0
  /\ calls[c].pc = "stat"
  /\ LET call == calls[c]
         r == FsStat(fs, join(dirpath, call.path))
     IN  calls' = [calls EXCEPT ![c] =
           IF r.err # "OK" THEN [call EXCEPT !.pc = "emit"]
           ELSE IF r.kind = "file" THEN [call EXCEPT !.pc = "done", !.out = Resolved(One)]
           ELSE [call EXCEPT !.pc = "emit"]]
  /\ UNCHANGED <<fs, started, sync>>

WritepStat(c) ==
  /\ sync = 0
  /\ calls[c].pc = "stat"
  /\ LET call == calls[c]
         r == FsStat(fs, join(dirpath, call.path))
     IN  calls' = [calls EXCEPT ![c] =
           IF r.err = "ENOENT" THEN [call EXCEPT !.pc = "emit"]
           ELSE IF r.err # "OK" THEN [call EXCEPT !.pc = "done", !.out = Resolved(Err(r.err))]
           ELSE IF r.kind = "file" THEN [call EXCEPT !.pc = "done", !.out = Resolved(One)]
           ELSE [call EXCEPT !.pc = "emit"]]
  /\ UNCHANGED <<fs, started, sync>>

(***************************************************************************)
(* rmrdir (lines 200-211).  Task q is the invocation rmrdir(q); the       *)
(* invocations for the entries of a directory run concurrently, and       *)
(* Promise.all joins them: it resolves when all have, and rejects as soon *)
(* as one does, while the others run on.                                   *)
(***************************************************************************)
\* the paths right under directory q
Entries(q) == {e \in CallPaths : Len(e) = Len(q) + 1 /\ IsPrefix(q, e)}

\* TaskReject with a join that does not take up an invocation's rejection
TaskReject_EntryOnly(ts, q, v, top) ==
  [ts EXCEPT ![q] = [pc |-> "rejected", val |-> v]]

\* task q rejects with v; a parent waiting in Promise.all rejects with it
RECURSIVE TaskReject(_, _, _, _)
TaskReject(ts, q, v, top) ==
  LET ts1 == [ts EXCEPT ![q] = [pc |-> "rejected", val |-> v]]
  IN  IF q = top \/ ts1[dirname(q)].pc # "wait" THEN ts1
      ELSE TaskReject(ts1, dirname(q), v, top)

\* TaskResolve with a join that takes the first invocation to resolve for all
TaskResolve_AnyEntry(ts, q, v, top) ==
  LET ts1 == [ts EXCEPT ![q] = [pc |-> "resolved", val |-> v]]
      par == dirname(q)
  IN  IF q = top \/ ts1[par].pc # "wait" THEN ts1
      ELSE [ts1 EXCEPT ![par].pc = "rmdir"]

\* task q resolves with v; a parent whose every invocation has resolved goes
\* on to `return this.rmdir(dpath)`
TaskResolve(ts, q, v, top) ==
  LET ts1 == [ts EXCEPT ![q] = [pc |-> "resolved", val |-> v]]
      par == dirname(q)
  IN  IF q = top \/ ts1[par].pc # "wait" THEN ts1
      ELSE IF \A e \in Entries(par) : ts1[e].pc \in {"none", "resolved"}
      THEN [ts1 EXCEPT ![par].pc = "rmdir"]
      ELSE ts1

\* the call's promise is the top invocation's
RmSettle(call, ts) ==
  LET t == ts[call.path]
  IN  [call EXCEPT !.tasks = ts,
                   !.out = IF Settled(call) THEN @
                           ELSE IF t.pc = "resolved" THEN Resolved(t.val)
                           ELSE IF t.pc = "rejected" THEN [kind |-> "rejected", val |-> t.val]
                           ELSE @,
                   !.pc = IF t.pc \in {"resolved", "rejected"} THEN "done" ELSE @]

\* RmStat taking a path that is not there for one that is neither file nor
\* directory
RmStat_AbsentIsNeither(c, q) ==
  /\ sync = 0
  /\ calls[c].tasks[q].pc = "stat"
  /\ LET call == calls[c]
         ts == call.tasks
         r == FsStat(fs, join(dirpath, q))
     IN  calls' = [calls EXCEPT ![c] =
           IF r.err = "ENOENT" THEN RmSettle(call, TaskResolve(ts, q, One, call.path))
           ELSE IF r.err # "OK" THEN RmSettle(call, TaskReject(ts, q, Err(r.err), call.path))
           ELSE IF r.kind = "file"
           THEN [call EXCEPT !.tasks[q].pc = "unlink",
                             !.ev = Append(@, Event("delete", q, Undefined))]
           ELSE IF r.kind = "dir" THEN [call EXCEPT !.tasks[q].pc = "readdir"]
           ELSE RmSettle(call, TaskResolve(ts, q, One, call.path))]
  /\ UNCHANGED <<fs, started, sync>>

\* const stats = await this.stat(dpath), and the branch on it; a file's
\* branch runs del up to its unlink request
RmStat(c, q) ==
  /\ sync = 0
  /\ calls[c].tasks[q].pc = "stat"
  /\ LET call == calls[c]
         ts == call.tasks
         r == FsStat(fs, join(dirpath, q))
     IN  calls' = [calls EXCEPT ![c] =
           IF r.err # "OK" THEN RmSettle(call, TaskReject(ts, q, Err(r.err), call.path))
           ELSE IF r.kind = "file"
           THEN [call EXCEPT !.tasks[q].pc = "unlink",
                             !.ev = Append(@, Event("delete", q, Undefined))]
           ELSE IF r.kind = "dir" THEN [call EXCEPT !.tasks[q].pc = "readdir"]
           ELSE RmSettle(call, TaskResolve(ts, q, One, call.path))]
  /\ UNCHANGED <<fs, started, sync>>

\* del's pmUnlink
RmUnlink(c, q) ==
  /\ sync = 0
  /\ calls[c].tasks[q].pc = "unlink"
  /\ LET call == calls[c]
         r == FsUnlink(fs, join(dirpath, q))
     IN  /\ fs' = r.fs
         /\ calls' = [calls EXCEPT ![c] =
              IF r.err = "OK" THEN RmSettle(call, TaskResolve(call.tasks, q, Undefined, call.path))
              ELSE RmSettle(call, TaskReject(call.tasks, q, Err(r.err), call.path))]
  /\ UNCHANGED <<started, sync>>

\* RmReaddir listing the directory that holds dpath, not dpath
RmReaddir_ListsParent(c, q) ==
  /\ sync = 0
  /\ calls[c].tasks[q].pc = "readdir"
  /\ LET call == calls[c]
         r == FsReaddir(fs, join(dirpath, dirname(q)))
         kids == {join(dirname(q), <<n>>) : n \in r.names} \ {q}
     IN  calls' = [calls EXCEPT ![c] =
           IF r.err # "OK" THEN RmSettle(call, TaskReject(call.tasks, q, Err(r.err), call.path))
           ELSE [call EXCEPT !.tasks =
                   [e \in RelPaths |->
                      IF e = q THEN [pc |-> IF kids = {} THEN "rmdir" ELSE "wait", val |-> Undefined]
                      ELSE IF e \in kids THEN [pc |-> "stat", val |-> Undefined]
                      ELSE call.tasks[e]]]]
  /\ UNCHANGED <<fs, started, sync>>

\* RmReaddir going on to the rmdir without joining the entries' invocations
RmReaddir_NoJoin(c, q) ==
  /\ sync = 0
  /\ calls[c].tasks[q].pc = "readdir"
  /\ LET call == calls[c]
         r == FsReaddir(fs, join(dirpath, q))
         kids == {join(q, <<n>>) : n \in r.names}
     IN  calls' = [calls EXCEPT ![c] =
           IF r.err # "OK" THEN RmSettle(call, TaskReject(call.tasks, q, Err(r.err), call.path))
           ELSE [call EXCEPT !.tasks =
                   [e \in RelPaths |->
                      IF e = q THEN [pc |-> "rmdir", val |-> Undefined]
                      ELSE IF e \in kids THEN [pc |-> "stat", val |-> Undefined]
                      ELSE call.tasks[e]]]]
  /\ UNCHANGED <<fs, started, sync>>

\* await pmReaddir(...), and one rmrdir per entry
RmReaddir(c, q) ==
  /\ sync = 0
  /\ calls[c].tasks[q].pc = "readdir"
  /\ LET call == calls[c]
         r == FsReaddir(fs, join(dirpath, q))
         kids == {join(q, <<n>>) : n \in r.names}
     IN  calls' = [calls EXCEPT ![c] =
           IF r.err # "OK" THEN RmSettle(call, TaskReject(call.tasks, q, Err(r.err), call.path))
           ELSE [call EXCEPT !.tasks =
                   [e \in RelPaths |->
                      IF e = q THEN [pc |-> IF kids = {} THEN "rmdir" ELSE "wait", val |-> Undefined]
                      ELSE IF e \in kids THEN [pc |-> "stat", val |-> Undefined]
                      ELSE call.tasks[e]]]]
  /\ UNCHANGED <<fs, started, sync>>

\* return this.rmdir(dpath)
RmRmdir(c, q) ==
  /\ sync = 0
  /\ calls[c].tasks[q].pc = "rmdir"
  /\ LET call == calls[c]
         r == FsRmdir(fs, join(dirpath, q))
     IN  /\ fs' = r.fs
         /\ calls' = [calls EXCEPT ![c] =
              IF r.err = "OK" THEN RmSettle(call, TaskResolve(call.tasks, q, Undefined, call.path))
              ELSE RmSettle(call, TaskReject(call.tasks, q, Err(r.err), call.path))]
  /\ UNCHANGED <<started, sync>>

(***************************************************************************)
(* The client and the initial filesystems.                                 *)
(***************************************************************************)
Ops == {"read", "write", "writep", "del", "rmrdir", "mkdirp"}

\* what each path may be when the store is first used
InitKinds(p) ==
  IF p = <<"srv">> \/ p = dirpath THEN {"absent", "dir"}
  ELSE IF p = join(dirpath, <<"a", "b", "doc.json">>) THEN {"absent", "file", "dir", "special"}
  ELSE IF p = join(dirpath, <<"a", "b", "c">>) THEN {"absent", "dir", "special"}
  ELSE IF p = join(dirpath, <<"a", "n.txt">>) THEN {"absent", "file"}
  ELSE {"absent", "dir", "file"}

\* the content a file starts with
InitContent(p) ==
  IF endsWithJson(p) THEN JSONStringify(Obj(<< << <<"x">>, Num(1) >> >>)) ELSE <<"a">>

InitNode(p, k) ==
  IF k = "file" THEN File(InitContent(p))
  ELSE IF k = "dir" THEN Dir
  ELSE IF k = "special" THEN Special
  ELSE Absent

InitFS ==
  LET kinds == {k \in [AllPaths -> {"absent", "dir", "file", "special"}] :
                  \A p \in AllPaths : k[p] \in InitKinds(p)}
  IN  {f \in {[p \in AllPaths |-> InitNode(p, k[p])] : k \in kinds} : WellFormed(f)}

Init ==
  /\ fs \in InitFS
  /\ calls = <<>>
  /\ started = 0
  /\ sync = 0

\* a client that awaits each call before the next: the record of the call
\* before the last is dropped
Call(op, p, data) ==
  /\ sync = 0
  /\ started < MaxCalls
  /\ \A c \in DOMAIN calls : Quiescent(calls[c])
  /\ calls' = (IF calls = <<>> THEN <<>> ELSE <<calls[Len(calls)]>>)
                \o <<NewCall(op, p, data, fs)>>
  /\ started' = started + 1
  /\ UNCHANGED <<fs, sync>>

\* the arguments a client may pass to method op
ArgsOf(op) ==
  IF op \in {"write", "writep"}
  THEN UNION {{<<p, data>> : data \in DataFor(p)} : p \in DocPaths}
  ELSE {<<p, Undefined>> : p \in CallPaths}

Next ==
  \/ \E op \in Ops : \E a \in ArgsOf(op) : Call(op, a[1], a[2])
  \/ \E c \in DOMAIN calls : Read(c)
  \/ \E c \in DOMAIN calls : WriteEmit(c)
  \/ \E c \in DOMAIN calls : WriteFileSync(c)
  \/ \E c \in DOMAIN calls : DelEmit(c)
  \/ \E c \in DOMAIN calls : DelUnlink(c)
  \/ \E c \in DOMAIN calls : MkdirpMkdir(c)
  \/ \E c \in DOMAIN calls : MkdirpStat(c)
  \/ \E c \in DOMAIN calls : WritepStat(c)
  \/ \E c \in DOMAIN calls, q \in CallPaths : RmStat(c, q)
  \/ \E c \in DOMAIN calls, q \in CallPaths : RmUnlink(c, q)
  \/ \E c \in DOMAIN calls, q \in CallPaths : RmReaddir(c, q)
  \/ \E c \in DOMAIN calls, q \in CallPaths : RmRmdir(c, q)

Spec == Init /\ [][Next]_vars

(***************************************************************************)
(* Concurrent provisioning: up to MaxCalls calls of mkdirp in flight at   *)
(* once on a store whose root exists, nothing else running.  Each call's  *)
(* pending request is served in the end (node completes every request it  *)
(* was given), which is weak fairness of each call's steps.                *)
(***************************************************************************)
InitProv ==
  /\ fs \in {f \in InitFS : f[dirpath].kind = "dir"}
  /\ calls = <<>>
  /\ started = 0
  /\ sync = 0

\* a caller starts mkdirp(p) whatever else is running
Provision(p) ==
  /\ sync = 0
  /\ started < MaxCalls
  /\ calls' = Append(calls, NewCall("mkdirp", p, Undefined, fs))
  /\ started' = started + 1
  /\ UNCHANGED <<fs, sync>>

\* the paths provisioned at once: they share the ancestor a/b
ProvisionPaths == {<<"a", "b">>, <<"a", "b", "c">>, <<"a", "b", "doc.json">>}

NextProv ==
  \/ \E p \in ProvisionPaths : Provision(p)
  \/ \E c \in DOMAIN calls : MkdirpMkdir(c)
  \/ \E c \in DOMAIN calls : MkdirpStat(c)

SpecProv ==
  /\ InitProv
  /\ [][NextProv]_vars
  /\ \A c \in 1..MaxCalls :
       /\ WF_vars(c \in DOMAIN calls /\ MkdirpMkdir(c))
       /\ WF_vars(c \in DOMAIN calls /\ MkdirpStat(c))

(***************************************************************************)
(* Round trips: a client that writes structured values to the document    *)
(* a/b/doc.json and reads it back, awaiting each call, on a store where   *)
(* the document's directory exists.  The values cover what the model's    *)
(* JSON can spell: numbers, strings with characters that are escaped,     *)
(* empty, flat and nested objects.                                         *)
(***************************************************************************)
RoundTripValues ==
  JsonValues \cup
  { Num(0), Num(105),
    Str(<<>>), Str(<<"a", "\"", "b">>), Str(<<"\\", "n">>), Str(<<"a", "\n", " ">>),
    Str(<<"{", "}">>),
    Obj(<<>>),
    Obj(<< << <<"x">>, Num(1) >>, << <<"y">>, Str(<<"a">>) >> >>),
    Obj(<< << <<"k", "\"">>, Str(<<"\"">>) >> >>),
    Obj(<< << <<"x">>, Obj(<<>>) >> >>),
    Obj(<< << <<"x">>, Obj(<< << <<"y">>, Num(7) >>, << <<"x">>, Str(<<"7">>) >> >>) >>,
           << <<"z">>, Num(10) >> >>) }

RoundTripPath == <<"a", "b", "doc.json">>

InitRoundTrip ==
  /\ fs \in {f \in InitFS : f[join(dirpath, dirname(RoundTripPath))].kind = "dir"}
  /\ calls = <<>>
  /\ started = 0
  /\ sync = 0

NextRoundTrip ==
  \/ \E v \in RoundTripValues : Call("write", RoundTripPath, v)
  \/ Call("read", RoundTripPath, Undefined)
  \/ \E c \in DOMAIN calls : WriteEmit(c)
  \/ \E c \in DOMAIN calls : WriteFileSync(c)
  \/ \E c \in DOMAIN calls : Read(c)

SpecRoundTrip == InitRoundTrip /\ [][NextRoundTrip]_vars

(***************************************************************************)
(* Provisioning on stores with a read-only directory: one mkdirp at a     *)
(* time, each awaited before the next, on the initial filesystems whose   *)
(* store root's parent is there, and on the same with the store root or   *)
(* the directory a made read-only.  Each request of a call is served in   *)
(* the end: weak fairness of its steps.                                    *)
(***************************************************************************)
LockedDirs == {dirpath, join(dirpath, <<"a">>)}

TermFS ==
  LET base == {f \in InitFS : f[<<"srv">>].kind = "dir"}
  IN  base \cup UNION {{[f EXCEPT ![d] = ReadOnlyDir] : f \in {g \in base : g[d].kind = "dir"}} :
                          d \in LockedDirs}

InitTerm ==
  /\ fs \in TermFS
  /\ calls = <<>>
  /\ started = 0
  /\ sync = 0

\* the caller awaits the calls made so far, then starts mkdirp(p)
ProvisionNext(p) ==
  /\ \A c \in DOMAIN calls : Settled(calls[c])
  /\ Provision(p)

NextTerm ==
  \/ \E p \in CallPaths : ProvisionNext(p)
  \/ \E c \in DOMAIN calls : MkdirpMkdir(c)
  \/ \E c \in DOMAIN calls : MkdirpStat(c)

SpecTerm ==
  /\ InitTerm
  /\ [][NextTerm]_vars
  /\ \A c \in 1..MaxCalls :
       /\ WF_vars(c \in DOMAIN calls /\ MkdirpMkdir(c))
       /\ WF_vars(c \in DOMAIN calls /\ MkdirpStat(c))

(***************************************************************************)
(* Concurrent calls: up to MaxCalls calls of read, write, writep, del and *)
(* rmrdir in flight at once, as when requests arrive while others are     *)
(* being served.  The calls are about one document, a/b/doc.json, and the *)
(* directory a/b that holds it; their steps interleave in every way,      *)
(* except that nothing runs between a write's emit and the end of its     *)
(* writeFileSync.                                                          *)
(***************************************************************************)
MixPath == <<"a", "b", "doc.json">>

MixDir == <<"a", "b">>

MixValues == {Num(42), Obj(<< << <<"x">>, Num(1) >> >>)}

MixArgs ==
  {<<"write", MixPath, v>> : v \in MixValues}
    \cup {<<"writep", MixPath, v>> : v \in MixValues}
    \cup {<<"del", MixPath, Undefined>>, <<"rmrdir", MixDir, Undefined>>,
          <<"read", MixPath, Undefined>>}

InitMix ==
  /\ fs \in {f \in InitFS :
               /\ f[join(dirpath, <<"a">>)].kind = "dir"
               /\ f[join(dirpath, MixDir)].kind \in {"absent", "dir"}
               /\ f[join(dirpath, MixPath)].kind \in {"absent", "file"}
               /\ f[join(dirpath, <<"a", "b", "c">>)].kind \in {"absent", "dir"}
               /\ f[join(dirpath, <<"a", "n.txt">>)].kind = "absent"}
  /\ calls = <<>>
  /\ started = 0
  /\ sync = 0

\* a request arrives: its method is called whatever else is running
Start(op, p, data) ==
  /\ sync = 0
  /\ started < MaxCalls
  /\ calls' = Append(calls, NewCall(op, p, data, fs))
  /\ started' = started + 1
  /\ UNCHANGED <<fs, sync>>

NextMix ==
  \/ \E a \in MixArgs : Start(a[1], a[2], a[3])
  \/ \E c \in DOMAIN calls : Read(c)
  \/ \E c \in DOMAIN calls : WriteEmit(c)
  \/ \E c \in DOMAIN calls : WriteFileSync(c)
  \/ \E c \in DOMAIN calls : DelEmit(c)
  \/ \E c \in DOMAIN calls : DelUnlink(c)
  \/ \E c \in DOMAIN calls : MkdirpMkdir(c)
  \/ \E c \in DOMAIN calls : MkdirpStat(c)
  \/ \E c \in DOMAIN calls : WritepStat(c)
  \/ \E c \in DOMAIN calls, q \in CallPaths : RmStat(c, q)
  \/ \E c \in DOMAIN calls, q \in CallPaths : RmUnlink(c, q)
  \/ \E c \in DOMAIN calls, q \in CallPaths : RmReaddir(c, q)
  \/ \E c \in DOMAIN calls, q \in CallPaths : RmRmdir(c, q)

SpecMix == InitMix /\ [][NextMix]_vars

(***************************************************************************)
(* Vocabulary of the properties.  Under Spec the client awaits each call, *)
(* so the last record is the call that runs or has just completed, the    *)
(* one before it the call that completed right before, and the last       *)
(* call's fs0 is the filesystem the previous call left.                    *)
(***************************************************************************)
Abs(p) == join(dirpath, p)

HasLast == calls # <<>>

Last == calls[Len(calls)]

HasPrev == Len(calls) >= 2

Prev == calls[Len(calls) - 1]

\* the last two calls are the same method on the same path, both completed
TwiceInARow(op) ==
  /\ HasPrev
  /\ Prev.op = op /\ Last.op = op /\ Prev.path = Last.path
  /\ Quiescent(Prev) /\ Quiescent(Last)

\* the paths of the tree rooted at p (p included)
Subtree(p) == {q \in AllPaths : IsPrefix(Abs(p), q)}

\* the directories a document or directory at p lies in, up to the store root
Ancestors(p) == {SubSeq(Abs(p), 1, i) : i \in 1..(Len(Abs(p)) - 1)}

\* nothing but directories and gaps on the way to p and at p
Provisionable(f, p) ==
  /\ f[<<"srv">>].kind = "dir"
  /\ \A q \in Ancestors(p) \cup {Abs(p)} : f[q].kind \in {"absent", "dir"}

WriteEvents(call) == {i \in 1..Len(call.ev) : call.ev[i].kind = "write"}

(***************************************************************************)
(* C1 as stated: removeTree on a path that does not exist in the store    *)
(* (the store root itself being there) completes with the no-op success   *)
(* sentinel, not with an error, and leaves the filesystem unchanged.      *)
(***************************************************************************)
C1_AbsentPathSucceeds ==
  (HasLast /\ Last.op = "rmrdir" /\ Settled(Last)
     /\ Last.fs0[dirpath].kind = "dir"
     /\ Last.fs0[Abs(Last.path)].kind = "absent")
  => (Last.out = Resolved(One) /\ fs = Last.fs0)

(***************************************************************************)
(* C1 amended: removeTree on a path that does not exist fails with the    *)
(* error of its stat (ENOENT, or ENOTDIR under a non-directory), emits    *)
(* nothing and leaves the filesystem unchanged; the sentinel 1 is what it *)
(* returns for a path that exists and is neither file nor directory; and  *)
(* the second of two calls in a row on an existing tree, the first having *)
(* succeeded, fails with ENOENT.                                           *)
(***************************************************************************)
C1_AbsentPathRejects ==
  (HasLast /\ Last.op = "rmrdir" /\ Settled(Last)) =>
    LET k0 == Last.fs0[Abs(Last.path)].kind
    IN  /\ k0 = "absent" =>
             /\ Last.out \in {Rejected("ENOENT"), Rejected("ENOTDIR")}
             /\ Last.out = Rejected(FsStat(Last.fs0, Abs(Last.path)).err)
             /\ Last.ev = <<>>
             /\ fs = Last.fs0
        /\ Last.out = Resolved(One) <=> k0 = "special"
        /\ k0 = "special" => fs = Last.fs0
        /\ (TwiceInARow("rmrdir") /\ Prev.out.kind = "resolved"
              /\ Prev.fs0[Abs(Prev.path)].kind \in {"file", "dir"})
           => Last.out = Rejected("ENOENT")

\* a tree was removed with success and the next removeTree of it has completed
C1_Witness ==
  /\ TwiceInARow("rmrdir")
  /\ Prev.out.kind = "resolved"
  /\ Prev.fs0[Abs(Prev.path)].kind = "dir"
  /\ Children(Prev.fs0, Abs(Prev.path)) # {}
  /\ Last.out.kind = "rejected"

(***************************************************************************)
(* C2 as stated: writeIfAbsent(p, v) when a directory occupies p returns  *)
(* the "already exists" sentinel: no write is attempted, no write         *)
(* notification is emitted, no error is raised, the filesystem is         *)
(* unchanged.                                                              *)
(***************************************************************************)
C2_DirectoryIsAlreadyExists ==
  (HasLast /\ Last.op = "writep" /\ Settled(Last)
     /\ Last.fs0[Abs(Last.path)].kind = "dir")
  => /\ Last.out = Resolved(One)
     /\ Last.wr = 0
     /\ WriteEvents(Last) = {}
     /\ fs = Last.fs0

(***************************************************************************)
(* C2 amended: writeIfAbsent(p, v) when p exists but is not a file goes   *)
(* on to write(p, v): it emits one write notification carrying (p, v),    *)
(* attempts the write once, and the call fails with the write's error     *)
(* (EISDIR when a directory occupies p); the filesystem is unchanged.     *)
(***************************************************************************)
C2_DirectoryIsWritten ==
  (HasLast /\ Last.op = "writep" /\ Settled(Last)
     /\ Last.fs0[Abs(Last.path)].kind \in {"dir", "special"})
  => /\ Last.out = Rejected(IF Last.fs0[Abs(Last.path)].kind = "dir"
                            THEN "EISDIR" ELSE "ENXIO")
     /\ Last.wr = 1
     /\ Last.ev = <<Event("write", Last.path, Last.data)>>
     /\ fs = Last.fs0

\* a writeIfAbsent on a path a directory occupies has completed
C2_Witness ==
  /\ HasLast /\ Last.op = "writep" /\ Settled(Last)
  /\ Last.fs0[Abs(Last.path)].kind = "dir"
  /\ Last.out.kind = "rejected"

(***************************************************************************)
(* C3 as stated: for a path p that does not end in .json and a raw text   *)
(* t, write(p, t) followed by read(p) returns exactly t.                  *)
(***************************************************************************)
WriteThenRead ==
  /\ HasPrev
  /\ Prev.op = "write" /\ Prev.out = Resolved(Undefined)
  /\ Last.op = "read" /\ Last.path = Prev.path /\ Settled(Last)

C3_RawReadReturnsText ==
  (WriteThenRead /\ ~endsWithJson(Last.path)) => Last.out = Resolved(Prev.data)

(***************************************************************************)
(* C3 amended: for a path p that does not end in .json and a raw text t,  *)
(* write(p, t) stores exactly t, and read(p) attempts the structured      *)
(* decoding all the same: it returns exactly t when t is not JSON text,   *)
(* and the decoded value when it is (the number 42 for "42", the empty    *)
(* object for "{}").                                                       *)
(***************************************************************************)
C3_RawReadDecodes ==
  (WriteThenRead /\ ~endsWithJson(Last.path)) =>
    LET t == Prev.data.s
    IN  /\ fs[Abs(Last.path)] = File(t)
        /\ Last.out.kind = "resolved"
        /\ ~JSONParse(t).ok => Last.out.val = Str(t)
        /\ JSONParse(t).ok => Last.out.val = JSONParse(t).v /\ Last.out.val # Str(t)
        /\ t = <<"4", "2">> => Last.out.val = Num(42)
        /\ t = <<"{", "}">> => Last.out.val = Obj(<<>>)
        /\ t = <<"a">> => Last.out.val = Str(<<"a">>)

\* the text "42" was written to a raw document and read back
C3_Witness ==
  /\ WriteThenRead /\ ~endsWithJson(Last.path)
  /\ Prev.data = Str(<<"4", "2">>)
  /\ Last.out.kind = "resolved"

(***************************************************************************)
(* C4: writeIfAbsent(p, v1) run to completion on a store where p can be   *)
(* created (p absent, nothing but directories and gaps above it), then    *)
(* writeIfAbsent(p, v2): the first call wrote v1, the second performs no  *)
(* write, emits no notification and returns the "already exists"          *)
(* sentinel 1, and the document at p still holds v1.  (Where p held a     *)
(* document before the first call, both calls are that no-op.)            *)
(***************************************************************************)
C4_SecondWriteIfAbsentIsNoOp ==
  /\ (TwiceInARow("writep") /\ Provisionable(Prev.fs0, Prev.path)
        /\ Prev.fs0[Abs(Prev.path)].kind = "absent")
     => /\ Prev.out = Resolved(Undefined) /\ Prev.wr = 1
        /\ Last.out = Resolved(One)
        /\ Last.wr = 0
        /\ Last.ev = <<>>
        /\ fs = Last.fs0
        /\ fs[Abs(Last.path)] = File(Serialize(Prev.path, Prev.data))
        /\ endsWithJson(Last.path) => Decode(fs[Abs(Last.path)].content) = Prev.data
        /\ ~endsWithJson(Last.path) => fs[Abs(Last.path)].content = Prev.data.s
  /\ (TwiceInARow("writep") /\ Prev.fs0[Abs(Prev.path)].kind = "file")
     => /\ Prev.out = Resolved(One) /\ Last.out = Resolved(One)
        /\ Prev.wr = 0 /\ Last.wr = 0
        /\ Prev.ev = <<>> /\ Last.ev = <<>>
        /\ fs = Prev.fs0

\* two writeIfAbsent in a row with different values, the first on an absent path
C4_Witness ==
  /\ TwiceInARow("writep")
  /\ Provisionable(Prev.fs0, Prev.path)
  /\ Prev.fs0[Abs(Prev.path)].kind = "absent"
  /\ Prev.data # Last.data
  /\ Last.out = Resolved(One)

(***************************************************************************)
(* C5: with the store root present and the parent directory of p not      *)
(* existing (stat of it answers ENOENT), write(p, v) fails with ENOENT    *)
(* and creates nothing, and writeIfAbsent(p, v) succeeds: once it has     *)
(* completed every ancestor directory of p exists and p is a file holding *)
(* v.  Until then the call always has a step to take.                      *)
(***************************************************************************)
ParentMissing(f, p) ==
  /\ f[dirpath].kind = "dir"
  /\ FsStat(f, Abs(dirname(p))).err = "ENOENT"

C5_WriteNeedsParentWriteIfAbsentMakesIt ==
  (HasLast /\ ParentMissing(Last.fs0, Last.path)) =>
    /\ (Last.op = "write" /\ Settled(Last)) =>
         (Last.out = Rejected("ENOENT") /\ fs = Last.fs0)
    /\ (Last.op = "writep" /\ Settled(Last)) =>
         /\ Last.out = Resolved(Undefined)
         /\ \A q \in Ancestors(Last.path) : fs[q].kind = "dir"
         /\ fs[Abs(Last.path)] = File(Serialize(Last.path, Last.data))
         /\ \A q \in AllPaths \ (Ancestors(Last.path) \cup {Abs(Last.path)}) :
              fs[q] = Last.fs0[q]
    /\ (Last.op = "writep" /\ ~Settled(Last)) => ENABLED Next

\* a writeIfAbsent two directories deep in an empty store has completed
C5_Witness ==
  /\ HasLast /\ Last.op = "writep" /\ Settled(Last)
  /\ ParentMissing(Last.fs0, Last.path)
  /\ Last.fs0[Abs(<<"a">>)].kind = "absent"
  /\ Last.path = <<"a", "b", "doc.json">>
  /\ fs[Abs(Last.path)].kind = "file"

(***************************************************************************)
(* C6: provision(p) twice in a row: the second call leaves the directory  *)
(* tree as the first left it and returns what the first returned; and     *)
(* where p can be provisioned (nothing but directories and gaps at p and  *)
(* above it) both calls return the success sentinel 1 and p and its       *)
(* ancestors are directories.                                              *)
(***************************************************************************)
C6_ProvisionIdempotent ==
  TwiceInARow("mkdirp") =>
    /\ fs = Last.fs0
    /\ Last.out = Prev.out
    /\ Provisionable(Prev.fs0, Prev.path) =>
         /\ Prev.out = Resolved(One)
         /\ Last.out = Resolved(One)
         /\ \A q \in Ancestors(Last.path) \cup {Abs(Last.path)} : fs[q].kind = "dir"

\* provision created a missing chain of directories and was called again
C6_Witness ==
  /\ TwiceInARow("mkdirp")
  /\ Prev.path = <<"a", "b", "c">>
  /\ Prev.fs0[Abs(<<"a">>)].kind = "absent"
  /\ Prev.fs0[dirpath].kind = "dir"
  /\ Last.out = Resolved(One)

(***************************************************************************)
(* C8: removeTree(p) on a directory, nothing else running: when the call  *)
(* completes with success the whole tree is gone, p included; and it does *)
(* complete with success on every tree made of files and directories,     *)
(* having emitted one delete notification per file of the tree.            *)
(***************************************************************************)
C8_RemoveTreeRemovesAll ==
  (HasLast /\ Last.op = "rmrdir" /\ Settled(Last)
     /\ Last.fs0[Abs(Last.path)].kind = "dir")
  => /\ Last.out.kind = "resolved" =>
          /\ Last.out.val = Undefined
          /\ \A q \in Subtree(Last.path) : fs[q].kind = "absent"
     /\ (\A q \in Subtree(Last.path) : Last.fs0[q].kind # "special") =>
          /\ Last.out.kind = "resolved"
          /\ \A q \in CallPaths :
               Cardinality({i \in 1..Len(Last.ev) : Last.ev[i] = Event("delete", q, Undefined)})
                 = IF Abs(q) \in Subtree(Last.path) /\ Last.fs0[Abs(q)].kind = "file"
                   THEN 1 ELSE 0

\* a tree holding a file and a subdirectory with a file of its own was removed
C8_Witness ==
  /\ HasLast /\ Last.op = "rmrdir" /\ Last.path = <<"a">>
  /\ Last.fs0[Abs(<<"a", "n.txt">>)].kind = "file"
  /\ Last.fs0[Abs(<<"a", "b", "doc.json">>)].kind = "file"
  /\ Last.fs0[Abs(<<"a", "b", "c">>)].kind = "dir"
  /\ Last.out = Resolved(Undefined)
  /\ fs[Abs(<<"a">>)].kind = "absent"

(***************************************************************************)
(* C9: removeTree(p) never touches a path outside the tree rooted at p:   *)
(* at every step of the call, and after it whether it succeeded or        *)
(* failed, every path that is neither p nor below p is as the call found  *)
(* it.                                                                     *)
(***************************************************************************)
C9_RemoveTreeFrame ==
  (HasLast /\ Last.op = "rmrdir") =>
    \A q \in AllPaths \ Subtree(Last.path) : fs[q] = Last.fs0[q]

\* a removeTree of a/b has removed entries while a sibling file exists
C9_Witness ==
  /\ HasLast /\ Last.op = "rmrdir" /\ Last.path = <<"a", "b">>
  /\ Quiescent(Last)
  /\ fs # Last.fs0
  /\ fs[Abs(<<"a", "n.txt">>)].kind = "file"

(***************************************************************************)
(* C10: every write(p, v) emits exactly one write notification, carrying  *)
(* p and v as passed (not its serialization), before writeFileSync is     *)
(* called: when the notification is out the file is still untouched, and  *)
(* the notification is there as well when the write then fails.  The same *)
(* holds of the write that writeIfAbsent goes on to.                       *)
(***************************************************************************)
C10_WriteNotifiesFirst ==
  (HasLast /\ Last.op \in {"write", "writep"}) =>
    /\ Last.pc = "emit" => (Last.ev = <<>> /\ Last.wr = 0)
    /\ Last.pc = "writeFileSync" =>
         /\ Last.ev = <<Event("write", Last.path, Last.data)>>
         /\ Last.wr = 0
         /\ fs[Abs(Last.path)] = Last.fs0[Abs(Last.path)]
         /\ Last.op = "write" => fs = Last.fs0
    /\ Last.pc = "done" =>
         /\ Len(Last.ev) = Last.wr
         /\ Last.wr = 1 => Last.ev = <<Event("write", Last.path, Last.data)>>
         /\ Last.op = "write" =>
              (Last.wr = 1 /\ Last.out.kind \in {"resolved", "rejected"})

\* a write of a structured value failed on a missing parent, notification out
C10_Witness ==
  /\ HasLast /\ Last.op = "write" /\ Last.pc = "done"
  /\ Last.out = Rejected("ENOENT")
  /\ Last.data = Obj(<< << <<"x">>, Num(1) >> >>)
  /\ Len(Last.ev) = 1

(***************************************************************************)
(* C7: concurrent provision calls on paths under a common ancestor, the   *)
(* store root present and nothing else running: under every interleaving  *)
(* of their mkdir and stat steps, each call on a path that can be         *)
(* provisioned eventually returns the success sentinel 1, a call that has *)
(* returned has returned 1, and once it has, every directory on its path  *)
(* exists.                                                                 *)
(***************************************************************************)
ProvisionCase(c) ==
  /\ c \in DOMAIN calls
  /\ Provisionable(calls[c].fs0, calls[c].path)

ProvisionDone(c) ==
  /\ c \in DOMAIN calls
  /\ calls[c].out = Resolved(One)
  /\ \A q \in Ancestors(calls[c].path) \cup {Abs(calls[c].path)} : fs[q].kind = "dir"

C7_ConcurrentProvisionSucceeds ==
  /\ [](\A c \in 1..MaxCalls :
          (ProvisionCase(c) /\ Settled(calls[c])) => ProvisionDone(c))
  /\ \A c \in 1..MaxCalls : ProvisionCase(c) ~> ProvisionDone(c)

\* two provisions of paths under a/b, both started before a existed (so
\* they ran at the same time), have both returned 1
C7_Witness ==
  /\ Len(calls) >= 2
  /\ calls[1].path = <<"a", "b", "c">>
  /\ calls[2].path = <<"a", "b", "doc.json">>
  /\ calls[1].fs0 = calls[2].fs0
  /\ calls[1].fs0[Abs(<<"a">>)].kind = "absent"
  /\ calls[1].out = Resolved(One)
  /\ calls[2].out = Resolved(One)

(***************************************************************************)
(* C11: a step that removes a file (through delete(p), or through         *)
(* removeTree reaching a file as its target or inside the tree) is taken  *)
(* by a call that has by then emitted exactly one delete notification     *)
(* carrying that file's path, and emits nothing in the step itself: the   *)
(* notification precedes the unlink request.  delete(p) on a path that is *)
(* not there fails with the error of unlink (ENOENT; ENOTDIR below a      *)
(* node that is no directory), the notification out all the same, and     *)
(* removes nothing.                                                        *)
(***************************************************************************)
DeleteEvents(call, q) ==
  {i \in 1..Len(call.ev) : call.ev[i] = Event("delete", q, Undefined)}

Removed(q) ==
  /\ fs[Abs(q)].kind \notin {"absent", "dir"}
  /\ fs'[Abs(q)].kind = "absent"

C11_DeleteNotifiesFirst ==
  /\ [][\A q \in CallPaths :
          Removed(q) =>
            /\ HasLast /\ Last.op \in {"del", "rmrdir"}
            /\ Cardinality(DeleteEvents(Last, q)) = 1
            /\ calls'[Len(calls')].ev = Last.ev]_vars
  /\ []((HasLast /\ Last.op = "del") =>
          /\ Last.pc = "emitDelete" => (Last.ev = <<>> /\ fs = Last.fs0)
          /\ Last.pc = "unlink" =>
               (Last.ev = <<Event("delete", Last.path, Undefined)>> /\ fs = Last.fs0)
          /\ Last.pc = "done" =>
               /\ Last.ev = <<Event("delete", Last.path, Undefined)>>
               /\ FsStat(Last.fs0, Abs(Last.path)).err # "OK" =>
                    /\ Last.out = Rejected(FsStat(Last.fs0, Abs(Last.path)).err)
                    /\ Last.out.val \in {Err("ENOENT"), Err("ENOTDIR")}
                    /\ WalkErr(Last.fs0, Abs(Last.path)) = "OK" => Last.out = Rejected("ENOENT")
                    /\ fs = Last.fs0
               /\ FsStat(Last.fs0, Abs(Last.path)).kind = "file" =>
                    /\ Last.out = Resolved(Undefined)
                    /\ fs = [Last.fs0 EXCEPT ![Abs(Last.path)] = Absent])

\* a removeTree of a/b has unlinked the document a/b/doc.json, the one
\* delete notification it emitted carrying that path
C11_Witness ==
  /\ HasLast /\ Last.op = "rmrdir" /\ Last.path = <<"a", "b">>
  /\ Last.fs0[Abs(<<"a", "b", "doc.json">>)].kind = "file"
  /\ fs[Abs(<<"a", "b", "doc.json">>)].kind = "absent"
  /\ Last.ev = <<Event("delete", <<"a", "b", "doc.json">>, Undefined)>>

(***************************************************************************)
(* C12: read(p) has emitted nothing before its readFile has answered; a   *)
(* read that succeeds has emitted exactly one read notification, carrying *)
(* p and the very value the call returns (the decoded value, or the text  *)
(* where it does not decode); a read that fails (ENOENT, ENOTDIR, EISDIR, *)
(* ENXIO) has emitted none.  It succeeds exactly where readFile does, and *)
(* changes nothing.                                                        *)
(***************************************************************************)
C12_ReadNotifiesAfter ==
  (HasLast /\ Last.op = "read") =>
    LET r == FsReadFile(Last.fs0, Abs(Last.path))
    IN  /\ fs = Last.fs0
        /\ Last.pc = "readFile" => (Last.ev = <<>> /\ ~Settled(Last))
        /\ Last.pc = "done" =>
             /\ r.err = "OK" =>
                  /\ Last.out = Resolved(Decode(r.text))
                  /\ Last.ev = <<Event("read", Last.path, Last.out.val)>>
             /\ r.err # "OK" =>
                  /\ Last.out = Rejected(r.err)
                  /\ Last.ev = <<>>

\* a read of the structured document returned the decoded object, notified
C12_Witness ==
  /\ HasLast /\ Last.op = "read" /\ Last.path = <<"a", "b", "doc.json">>
  /\ Last.out = Resolved(Obj(<< << <<"x">>, Num(1) >> >>))
  /\ Last.ev = <<Event("read", Last.path, Obj(<< << <<"x">>, Num(1) >> >>))>>

C14_StatErrorIsOutcomeNoWrite ==
  (HasLast /\ Last.op = "writep") =>
    LET st == FsStat(Last.fs0, Abs(Last.path))
    IN  /\ st.err \notin {"OK", "ENOENT"} =>
             /\ Last.ev = <<>> /\ Last.wr = 0 /\ fs = Last.fs0
             /\ Last.pc \notin {"emit", "writeFileSync"}
             /\ Settled(Last) => Last.out = Resolved(Err(st.err))
        /\ (Settled(Last) /\ Last.out.kind = "resolved" /\ Last.out.val.t = "error") =>
             /\ Last.out.val = Err(st.err) /\ st.err \notin {"OK", "ENOENT"}
             /\ Last.ev = <<>> /\ Last.wr = 0 /\ fs = Last.fs0

\* writeIfAbsent of a/b/doc.json where a/b is a regular file returned ENOTDIR
C14_Witness ==
  /\ HasLast /\ Last.op = "writep" /\ Last.path = <<"a", "b", "doc.json">>
  /\ Last.fs0[Abs(<<"a", "b">>)].kind = "file"
  /\ Last.out = Resolved(Err("ENOTDIR"))
  /\ Last.ev = <<>> /\ fs = Last.fs0

(***************************************************************************)
(* C15: in removeTree, when the invocation for an entry of directory d    *)
(* has failed, the invocation for d has failed with the error of one of   *)
(* its failed entries (the first to fail), d is still there, and its      *)
(* rmdir is never issued by this call; the call as a whole has then       *)
(* failed with the error its top invocation failed with.                   *)
(***************************************************************************)
FailedEntries(call, d) == {e \in Entries(d) : call.tasks[e].pc = "rejected"}

C15_EntryFailureFailsRemoveTree ==
  (HasLast /\ Last.op = "rmrdir") =>
    /\ \A d \in CallPaths :
         (IsPrefix(Last.path, d) /\ FailedEntries(Last, d) # {}) =>
           /\ Last.tasks[d].pc = "rejected"
           /\ Last.tasks[d].val \in {Last.tasks[e].val : e \in FailedEntries(Last, d)}
           /\ fs[Abs(d)].kind = "dir"
    /\ Last.tasks[Last.path].pc = "rejected" =>
         Last.out = [kind |-> "rejected", val |-> Last.tasks[Last.path].val]

\* removeTree(a): the entry a/b could not be removed (it holds a special
\* file, which is left alone), and the call failed with that ENOTEMPTY
C15_Witness ==
  /\ HasLast /\ Last.op = "rmrdir" /\ Last.path = <<"a">>
  /\ Last.fs0[Abs(<<"a", "b", "c">>)].kind = "special"
  /\ Last.tasks[<<"a", "b">>] = [pc |-> "rejected", val |-> Err("ENOTEMPTY")]
  /\ Last.out = Rejected("ENOTEMPTY")
  /\ Quiescent(Last)
  /\ fs[Abs(<<"a">>)].kind = "dir"

(***************************************************************************)
(* C17: for every structured value v and the path p ending in .json,      *)
(* whose directory exists: write(p, v) succeeds unless a directory or a   *)
(* special file occupies p, the document then holds JSON.stringify(v,     *)
(* undefined, 2), and a read(p) that follows returns a value equal to v   *)
(* (the same keys with the same nested values), whatever p held before.   *)
(***************************************************************************)
C17_StructuredRoundTrip ==
  /\ (HasLast /\ Last.op = "write" /\ Settled(Last) /\ endsWithJson(Last.path)
        /\ Last.fs0[Abs(dirname(Last.path))].kind = "dir") =>
       /\ Last.out = Resolved(Undefined)
            <=> Last.fs0[Abs(Last.path)].kind \in {"absent", "file"}
       /\ Last.out = Resolved(Undefined) =>
            /\ fs[Abs(Last.path)] = File(JSONStringify(Last.data))
            /\ JSONParse(fs[Abs(Last.path)].content) = 
                 [ok |-> TRUE, v |-> Last.data, nx |-> Len(fs[Abs(Last.path)].content) + 1]
  /\ (WriteThenRead /\ endsWithJson(Last.path)) =>
       /\ Last.out = Resolved(Prev.data)
       /\ Last.ev = <<Event("read", Last.path, Prev.data)>>

\* the nested object was written over a document and read back
C17_Witness ==
  /\ WriteThenRead /\ endsWithJson(Last.path)
  /\ Prev.fs0[Abs(Last.path)].kind = "file"
  /\ Prev.data.t = "object" /\ Len(Prev.data.o) = 2
  /\ Prev.data.o[1][2].t = "object" /\ Len(Prev.data.o[1][2].o) = 2
  /\ Last.out = Resolved(Prev.data)

(***************************************************************************)
(* C18 as stated: every provision(p) call terminates: whatever the        *)
(* filesystem (an ancestor of p that is absent and cannot be created for  *)
(* want of permission included), the call eventually returns the success  *)
(* sentinel or an error.                                                    *)
(***************************************************************************)
C18_ProvisionTerminates ==
  \A c \in 1..MaxCalls :
    (c \in DOMAIN calls) ~> (c \in DOMAIN calls /\ Settled(calls[c]))

(***************************************************************************)
(* C19 as stated: two writeIfAbsent calls on the same path p, absent when *)
(* each of them started, and nothing else running: at most one write      *)
(* notification for p is emitted by the two of them, and when both have   *)
(* returned one of them has returned the "already exists" sentinel 1.     *)
(***************************************************************************)
TwoWriteIfAbsent ==
  /\ Len(calls) = 2
  /\ \A c \in 1..2 :
       /\ calls[c].op = "writep" /\ calls[c].path = MixPath
       /\ calls[c].fs0[Abs(MixPath)].kind = "absent"

C19_OnlyOneWriteIfAbsentWrites ==
  TwoWriteIfAbsent =>
    /\ Cardinality(WriteEvents(calls[1])) + Cardinality(WriteEvents(calls[2])) <= 1
    /\ (Settled(calls[1]) /\ Settled(calls[2])) =>
         (calls[1].out = Resolved(One) \/ calls[2].out = Resolved(One))

(***************************************************************************)
(* C16: under every interleaving of read, write, writeIfAbsent, delete    *)
(* and removeTree calls, a document's content changes only in the step    *)
(* in which a write to its path completes, and that step leaves it        *)
(* holding exactly the serialization of the value passed to that write    *)
(* (so a document holds what the most recently completed write to its     *)
(* path was given, until it is removed); every document is as the store   *)
(* found it or holds the serialization of the value of a completed write  *)
(* to its path, and every read returns the decoding of such a text.       *)
(***************************************************************************)
WrittenBy(c) == File(Serialize(calls[c].path, calls[c].data))

\* call c's writeFileSync returns in this step, having written
CompletesWrite(c) ==
  /\ calls[c].pc = "writeFileSync"
  /\ calls'[c].pc = "done"
  /\ calls'[c].out = Resolved(Undefined)

\* the texts a document at p may hold: the one the store found, and the
\* serializations of the values of the writes to p that have completed
TextsAt(p) ==
  {calls[1].fs0[p].content}
    \cup {WrittenBy(c).content :
            c \in {d \in DOMAIN calls : /\ Abs(calls[d].path) = p
                                        /\ calls[d].wr = 1
                                        /\ calls[d].out = Resolved(Undefined)}}

RmdirIssued(t) == t.pc = "rmdir" \/ (t.pc = "resolved" /\ t.val = Undefined)

\* node q, or a node below it, is a special file: rmrdir leaves it
HoldsSpecial(f, q) == \E r \in AllPaths : IsPrefix(q, r) /\ f[r].kind = "special"

AfterRemoveTree(f, p) ==
  [q \in AllPaths |->
     IF q \in Subtree(p) /\ ~HoldsSpecial(f, q) THEN Absent ELSE f[q]]

C20_RmdirAfterEveryEntry ==
  (HasLast /\ Last.op = "rmrdir") =>
    /\ \A d \in CallPaths :
         (Last.fs0[Abs(d)].kind = "dir" /\ RmdirIssued(Last.tasks[d])) =>
           \A e \in Entries(d) :
             /\ Last.tasks[e].pc \in {"none", "resolved"}
             /\ Last.fs0[Abs(e)].kind # "absent" => Last.tasks[e].pc = "resolved"
             /\ Last.fs0[Abs(e)].kind \in {"file", "dir"} => fs[Abs(e)].kind = "absent"
    /\ \A e \in CallPaths :
         Last.tasks[e].pc \in {"stat", "unlink", "readdir", "rmdir"} =>
           ENABLED (\/ RmStat(Len(calls), e) \/ RmUnlink(Len(calls), e)
                    \/ RmReaddir(Len(calls), e) \/ RmRmdir(Len(calls), e))
    /\ Last.out.kind = "resolved" => Quiescent(Last)
    /\ Quiescent(Last) =>
         /\ fs = AfterRemoveTree(Last.fs0, Last.path)
         /\ Last.fs0[Abs(Last.path)].kind = "dir" =>
              (Last.out = Resolved(Undefined) <=> ~HoldsSpecial(Last.fs0, Abs(Last.path)))

\* removeTree(a) is about to issue the rmdir of a: the invocations for its
\* entries, the directory a/b (holding a document) and the file a/n.txt,
\* have resolved
C20_Witness ==
  /\ HasLast /\ Last.op = "rmrdir" /\ Last.path = <<"a">>
  /\ Last.fs0[Abs(<<"a", "b", "doc.json">>)].kind = "file"
  /\ Last.fs0[Abs(<<"a", "n.txt">>)].kind = "file"
  /\ Last.tasks[<<"a">>].pc = "rmdir"
  /\ Last.tasks[<<"a", "b">>].pc = "resolved"
  /\ Last.tasks[<<"a", "n.txt">>].pc = "resolved"
  /\ fs[Abs(<<"a">>)].kind = "dir"

====
